---- MODULE Spec2Model ----
(***************************************************************************)
(* wsProcessor: notes, requests and responses with acknowledgements and    *)
(* timeouts, plus application-level heartbeats, on top of a websocket.     *)
(*                                                                         *)
(* One wsProcessor instance is modelled.  Every public method, every timer *)
(* callback and every inbound message handler is one action (JavaScript    *)
(* runs each of them to completion).  Timers are sets of live handles: a   *)
(* live timer may fire at any later step, because the durations are chosen *)
(* freely by the caller of sendNote / sendRequest / the response function. *)
(* Stamps (uuidv4) are numbered in the order in which they are generated.  *)
(*                                                                         *)
(* What a handler sends, logs and calls is a function of the state it      *)
(* starts in and of its input: the operators named ...Fx.  The calls of    *)
(* the callbacks of each note, request and response are also accumulated   *)
(* in cbNote, cbReq and cbResp.                                            *)
(***************************************************************************)
EXTENDS Integers, Sequences, FiniteSets, TLC

\* ------------------------------------------------------------------ bounds
\* stamps generated by uuidv4 (notes and requests together)
MaxStamp == 2
\* requests and notes sent in the specification of the whole engine
MaxReq == 1
MaxNote == 1
\* inbound requests handed to the application: by the responder alone, and in
\* the specification of the whole engine
MaxInReq == 3
MaxIn == 1
\* pings sent
MaxPing == 2
\* pings sent in the specification of the heartbeat
MaxPingHB == 3
\* requestAck messages accepted for one request
MaxAck0 == 2

\* the seed of lastRTT / currentRTT, in milliseconds (0.1 s)
SeedRTT == 100

Stamps == 1..MaxStamp
InStamps == 1..MaxInReq
Pings == 1..MaxPingHB
\* a stamp this processor never generated, and one it never received
UnknownStamp == MaxStamp + 1
UnknownInStamp == MaxInReq + 1
\* round trip times a pong may be measured with, in milliseconds
RttSamples == {40, 300}
\* failureCode values a peer puts into a response ("" is: no such property)
PeerCodes == {"", "0", "13"}
\* opt.ackTimeout as given to sendRequest (0 or absent: no ack timeout)
AckTimeouts == {0, 3}

VARIABLES
    closing,         \* this.closing
    stackNote,       \* keys of this.stackNote
    stackRequest,    \* keys of this.stackRequest
    stackResponse,   \* keys of this.stackResponse, in insertion order
    noteSendAck,     \* stamp -> "none" | "false" | "true": notes sent so far
    reqObj,          \* stamp -> the stackObj / opt of a request sent so far
    respFn,          \* inbound requests whose response function is not called yet
    respSent,        \* inbound stamp -> how the response function was called:
                     \* "none" | "ack" | "noack", with ".closing" if closing was set
    tmNote,          \* live ack timers of notes
    tmReq,           \* live request-timeout timers
    tmReqAck,        \* live ack timers of requests
    tmResp,          \* live ack timers of responses
    nStamp,          \* number of stamps generated by uuidv4
    nIn,             \* number of inbound requests handed to the application
    nSent,           \* heartbeat.nSent
    nLastArrived,    \* heartbeat.nLastArrived
    hbSent,          \* keys of heartbeat.sent
    tmHB,            \* live failure timers of pings
    lastRTT,         \* heartbeat.lastRTT (ms)
    currentRTT,      \* heartbeat.currentRTT (ms)
    timeoutNext,     \* the timer heartbeat.timeoutNext refers to is live
    orphanNext,      \* live next-ping timers no handle refers to any more
    cbNote,          \* stamp -> codes the note's cbAck was called with
    cbReq,           \* stamp -> <<callback, code, path>> calls of a request
    cbResp,          \* inbound stamp -> codes the response's cbAck was called with
    cbClosing        \* number of calls of closingFunc

stores == <<stackNote, stackRequest, stackResponse>>
timers == <<tmNote, tmReq, tmReqAck, tmResp>>
objs == <<noteSendAck, reqObj, respFn, respSent, nStamp, nIn>>
hbeat == <<nSent, nLastArrived, hbSent, tmHB, lastRTT, currentRTT, timeoutNext, orphanNext>>
cbs == <<cbNote, cbReq, cbResp>>
vars == <<closing, stores, timers, objs, hbeat, cbs, cbClosing>>

\* ---------------------------------------------------------------- effects
Send(type, id, x) == <<"send", type, id, x>>
Cb(name, id, code) == <<"cb", name, id, code>>
Log(level, tag, id) == <<"log", tag, id, level>>
ClosingFunc == <<"closingFunc", "", 0, "">>
Throw(tag) == <<"throw", tag, 0, "">>

BoolStr(b) == IF b THEN "true" ELSE "false"

\* the keys of a store in the order a for-in loop visits them
KeysInOrder(S) == SelectSeq([i \in 1..MaxStamp |-> i], LAMBDA i: i \in S)

Range(s) == {s[i] : i \in 1..Len(s)}

Without(s, k) == SelectSeq(s, LAMBDA x: x # k)

NoReq == [used |-> FALSE, sendAck |-> FALSE, ackTimeout |-> 0, ackArrived |-> FALSE,
          ackTimedOut |-> FALSE, ackTimeoutHandle |-> FALSE]

\* ------------------------------------------------------------ constructor
\* constructor, lines 110-155, with opt.openOnConstruct = false
InitClosed ==
    /\ closing = TRUE
    /\ stackNote = {} /\ stackRequest = {} /\ stackResponse = <<>>
    /\ noteSendAck = [s \in Stamps |-> "none"]
    /\ reqObj = [s \in Stamps |-> NoReq]
    /\ respFn = {}
    /\ respSent = [s \in InStamps |-> "none"]
    /\ tmNote = {} /\ tmReq = {} /\ tmReqAck = {} /\ tmResp = {}
    /\ nStamp = 0 /\ nIn = 0
    /\ nSent = 0 /\ nLastArrived = 0 /\ hbSent = {} /\ tmHB = {}
    /\ lastRTT = SeedRTT /\ currentRTT = SeedRTT
    /\ timeoutNext = FALSE /\ orphanNext = 0
    /\ cbNote = [s \in Stamps |-> <<>>]
    /\ cbReq = [s \in Stamps |-> <<>>]
    /\ cbResp = [s \in InStamps |-> <<>>]
    /\ cbClosing = 0

\* the number of the ping sendHeartbeat sends: ++this.heartbeat.nSent, line 257
NextPingNumberSkips == nSent + 2
NextPingNumber == nSent + 1

\* sendHeartbeat, lines 254-300: what it sends and logs
SendHeartbeatFx == <<Send("ping", NextPingNumber, ""), Log("4", "ping sent", NextPingNumber)>>

\* sendHeartbeat, lines 254-300: the new heartbeat state, when the timer the
\* handle refers to is live or not (nextLive) and orphans timers were left behind
\* the failure timer sendHeartbeat arms for ping n, lines 282-291
NoFailureTimer(n) == {}
FailureTimerArmed(n) == {n}

SendHeartbeat(nextLive, orphans) ==
    /\ nSent' = NextPingNumber
    /\ hbSent' = hbSent \cup {NextPingNumber}
    /\ tmHB' = tmHB \cup FailureTimerArmed(NextPingNumber)
    /\ timeoutNext' = TRUE
    /\ orphanNext' = IF nextLive THEN orphans + 1 ELSE orphans
    /\ UNCHANGED <<nLastArrived, lastRTT, currentRTT>>

\* constructor with opt.openOnConstruct = true (the default): open() has run
InitOpen ==
    /\ closing = FALSE
    /\ stackNote = {} /\ stackRequest = {} /\ stackResponse = <<>>
    /\ noteSendAck = [s \in Stamps |-> "none"]
    /\ reqObj = [s \in Stamps |-> NoReq]
    /\ respFn = {}
    /\ respSent = [s \in InStamps |-> "none"]
    /\ tmNote = {} /\ tmReq = {} /\ tmReqAck = {} /\ tmResp = {}
    /\ nStamp = 0 /\ nIn = 0
    /\ nSent = 1 /\ nLastArrived = 0 /\ hbSent = {1} /\ tmHB = {1}
    /\ lastRTT = SeedRTT /\ currentRTT = SeedRTT
    /\ timeoutNext = TRUE /\ orphanNext = 0
    /\ cbNote = [s \in Stamps |-> <<>>]
    /\ cbReq = [s \in Stamps |-> <<>>]
    /\ cbResp = [s \in InStamps |-> <<>>]
    /\ cbClosing = 0

Init == InitClosed \/ InitOpen

\* ------------------------------------------------------------------ open
\* open(), lines 158-162
OpenFx == SendHeartbeatFx

Open ==
    /\ closing' = FALSE
    /\ SendHeartbeat(timeoutNext, orphanNext)
    /\ UNCHANGED <<stores, timers, objs, cbs>>
    /\ UNCHANGED cbClosing

\* ----------------------------------------------------------------- close
\* the code cbFailure gets from close(), lines 211-236
CloseCodeSwapped(o) ==
    IF o.sendAck
    THEN IF o.ackArrived THEN "1.1"
         ELSE IF o.ackTimeout > 0
              THEN (IF o.ackTimedOut THEN "1.2" ELSE "1.3")
              ELSE "1.2"
    ELSE "1"
CloseCode(o) ==
    IF o.sendAck
    THEN IF o.ackArrived THEN "1.1"
         ELSE IF o.ackTimeout > 0
              THEN (IF o.ackTimedOut THEN "1.3" ELSE "1.2")
              ELSE "1.2"
    ELSE "1"

\* close() returns at once when the processor is closing already, lines 170-173
CloseNeverReturnsEarly == FALSE
CloseReturnsEarly == closing

\* the ack timers close() clears in its loop over stackRequest, lines 202-207
CloseClearsNoAckTimer == {}
CloseClearedAckTimers == {s \in stackRequest : reqObj[s].ackTimeoutHandle}

\* the request timers close() clears in the same loop, line 209
CloseClearsNoRequestTimer == {}
CloseClearedRequestTimers == stackRequest

\* the callbacks close() calls in its three loops, lines 192-248
CloseNoteFx == [i \in 1..Len(KeysInOrder(stackNote)) |->
                  Cb("note.cbAck", KeysInOrder(stackNote)[i], "1")]
CloseReqFx == [i \in 1..Len(KeysInOrder(stackRequest)) |->
                  Cb("req.cbFailure", KeysInOrder(stackRequest)[i],
                     CloseCode(reqObj[KeysInOrder(stackRequest)[i]]))]
CloseRespFx == [i \in 1..Len(stackResponse) |-> Cb("resp.cbAck", stackResponse[i], "1")]

\* close(closeWsConnection), lines 168-252: what it calls and logs
CloseFx(closeWsConnection) ==
    IF CloseReturnsEarly
    THEN <<>>
    ELSE (IF closeWsConnection THEN <<ClosingFunc>> ELSE <<>>)
         \o CloseNoteFx \o CloseReqFx \o CloseRespFx
         \o <<Log("0", "ws connection got closed", 0)>>

\* the part of the state close() writes, as it is before the call when
\* heartbeat.sent is hb and the live ping failure timers are tm
CloseBefore(hb, tm) ==
    [closing |-> closing, timeoutNext |-> timeoutNext, tmHB |-> tm, hbSent |-> hb,
     stackNote |-> stackNote, tmNote |-> tmNote, cbNote |-> cbNote,
     stackRequest |-> stackRequest, tmReq |-> tmReq, tmReqAck |-> tmReqAck, cbReq |-> cbReq,
     stackResponse |-> stackResponse, tmResp |-> tmResp, cbResp |-> cbResp]

\* close(closeWsConnection), lines 168-252: the state it leaves
CloseAfter(hb, tm) ==
    IF CloseReturnsEarly
    THEN CloseBefore(hb, tm)
    ELSE [closing |-> TRUE,
          timeoutNext |-> FALSE,
          tmHB |-> tm \ hb,
          hbSent |-> {},
          stackNote |-> {},
          tmNote |-> tmNote \ stackNote,
          cbNote |-> [s \in Stamps |->
                IF s \in stackNote THEN Append(cbNote[s], "1") ELSE cbNote[s]],
          stackRequest |-> {},
          tmReq |-> tmReq \ CloseClearedRequestTimers,
          tmReqAck |-> tmReqAck \ CloseClearedAckTimers,
          cbReq |-> [s \in Stamps |->
                IF s \in stackRequest
                THEN Append(cbReq[s], <<"cbFailure", CloseCode(reqObj[s]), "close">>)
                ELSE cbReq[s]],
          stackResponse |-> <<>>,
          tmResp |-> tmResp \ Range(stackResponse),
          cbResp |-> [s \in InStamps |->
                IF s \in Range(stackResponse) THEN Append(cbResp[s], "1") ELSE cbResp[s]]]

\* the calls of closingFunc close(closeWsConnection) makes, lines 170-177
ClosingFuncCalls(closeWsConnection) ==
    IF CloseReturnsEarly THEN 0 ELSE IF closeWsConnection THEN 1 ELSE 0

DoClose(hb, tm, closeWsConnection) ==
    /\ cbClosing' = cbClosing + ClosingFuncCalls(closeWsConnection)
    /\ closing' = CloseAfter(hb, tm).closing
    /\ timeoutNext' = CloseAfter(hb, tm).timeoutNext
    /\ tmHB' = CloseAfter(hb, tm).tmHB
    /\ hbSent' = CloseAfter(hb, tm).hbSent
    /\ stackNote' = CloseAfter(hb, tm).stackNote
    /\ tmNote' = CloseAfter(hb, tm).tmNote
    /\ cbNote' = CloseAfter(hb, tm).cbNote
    /\ stackRequest' = CloseAfter(hb, tm).stackRequest
    /\ tmReq' = CloseAfter(hb, tm).tmReq
    /\ tmReqAck' = CloseAfter(hb, tm).tmReqAck
    /\ cbReq' = CloseAfter(hb, tm).cbReq
    /\ stackResponse' = CloseAfter(hb, tm).stackResponse
    /\ tmResp' = CloseAfter(hb, tm).tmResp
    /\ cbResp' = CloseAfter(hb, tm).cbResp
    /\ UNCHANGED <<objs, nSent, nLastArrived, lastRTT, currentRTT, orphanNext>>

\* close(closeWsConnection) called by the owner of the transport
Close(closeWsConnection) == DoClose(hbSent, tmHB, closeWsConnection)

\* ------------------------------------------------------------ heartbeat
\* the callback of heartbeat.timeoutNext, lines 295-297; the timer that fires is
\* the one the handle refers to, or one an earlier sendHeartbeat left behind
NextPingFiresFx == SendHeartbeatFx

NextPingFires(viaHandle) ==
    /\ IF viaHandle THEN timeoutNext ELSE orphanNext > 0
    /\ SendHeartbeat(IF viaHandle THEN FALSE ELSE timeoutNext,
                     IF viaHandle THEN orphanNext ELSE orphanNext - 1)
    /\ UNCHANGED <<closing, stores, timers, objs, cbs>>
    /\ UNCHANGED cbClosing

\* the callback of HB.timeout, lines 282-291
HeartbeatTimeoutFx(n) == <<Log("0", "pong did not arrive", n)>> \o CloseFx(TRUE)

HeartbeatTimeout(n) ==
    /\ n \in tmHB
    /\ DoClose(hbSent \ {n}, tmHB \ {n}, TRUE)

\* --------------------------------------------------------------- sendNote
\* sendNote(note, opt, cbAck), lines 327-369
SendNoteFx(sendAck) ==
    <<Log("3", "note sent", nStamp + 1), Send("note", nStamp + 1, BoolStr(sendAck))>>

\* the entry and its ack timer are created if (opt.sendAck), line 342
NoteAlwaysStacked(sendAck) == TRUE
NoteStacked(sendAck) == sendAck

SendNote(sendAck) ==
    /\ nStamp' = nStamp + 1
    /\ noteSendAck' = [noteSendAck EXCEPT ![nStamp + 1] = BoolStr(sendAck)]
    /\ stackNote' = IF NoteStacked(sendAck) THEN stackNote \cup {nStamp + 1} ELSE stackNote
    /\ tmNote' = IF NoteStacked(sendAck) THEN tmNote \cup {nStamp + 1} ELSE tmNote
    /\ UNCHANGED <<closing, stackRequest, stackResponse, reqObj, respFn, respSent, nIn,
                   tmReq, tmReqAck, tmResp, hbeat, cbs>>
    /\ UNCHANGED cbClosing

\* the callback of a note's ackTimeoutHandle, lines 352-362
NoteAckTimeoutFx(s) ==
    <<Cb("note.cbAck", s, "2"), Log("1", "no noteAck within timeout", s)>>

NoteAckTimeout(s) ==
    /\ s \in tmNote
    /\ tmNote' = tmNote \ {s}
    /\ cbNote' = [cbNote EXCEPT ![s] = Append(@, "2")]
    /\ stackNote' = stackNote \ {s}
    /\ UNCHANGED <<closing, stackRequest, stackResponse, objs, tmReq, tmReqAck,
                   tmResp, hbeat, cbReq, cbResp>>
    /\ UNCHANGED cbClosing

\* ------------------------------------------------------------ sendRequest
\* the code cbFailure gets from the request timeout, lines 421-457
TimeoutCodeSwapped(o) ==
    IF o.sendAck
    THEN IF o.ackArrived THEN "2.1"
         ELSE IF o.ackTimeout > 0
              THEN (IF o.ackTimedOut THEN "2.2" ELSE "2.3")
              ELSE "2.2"
    ELSE "2"
TimeoutCode(o) ==
    IF o.sendAck
    THEN IF o.ackArrived THEN "2.1"
         ELSE IF o.ackTimeout > 0
              THEN (IF o.ackTimedOut THEN "2.3" ELSE "2.2")
              ELSE "2.2"
    ELSE "2"

\* the request timeout clears the ack timer in one branch only, lines 436-439
TimeoutClearsAckTimer(o) ==
    o.sendAck /\ ~o.ackArrived /\ o.ackTimeout > 0 /\ ~o.ackTimedOut

\* the ack timer is armed if opt.ackTimeout>0 && opt.sendAck, line 472
AckTimerArmed(sendAck, ackTimeout) == ackTimeout > 0 /\ sendAck

\* the request timeout sendRequest arms for the entry, whatever this.closing is
RequestTimerArmedWhenOpen(stamp) == IF closing THEN {} ELSE {stamp}
RequestTimerArmed(stamp) == {stamp}

\* sendRequest(request, cbSuccess, cbFailure, opt, cbAck), lines 382-495
SendRequestFx(sendAck, ackTimeout) ==
    <<Log("3", "request sent", nStamp + 1), Send("request", nStamp + 1, BoolStr(sendAck))>>

SendRequest(sendAck, ackTimeout) ==
    /\ nStamp' = nStamp + 1
    /\ reqObj' = [reqObj EXCEPT ![nStamp + 1] =
            [used |-> TRUE, sendAck |-> sendAck, ackTimeout |-> ackTimeout,
             ackArrived |-> FALSE, ackTimedOut |-> FALSE,
             ackTimeoutHandle |-> AckTimerArmed(sendAck, ackTimeout)]]
    /\ stackRequest' = stackRequest \cup {nStamp + 1}
    /\ tmReq' = tmReq \cup RequestTimerArmed(nStamp + 1)
    /\ tmReqAck' = IF AckTimerArmed(sendAck, ackTimeout)
                   THEN tmReqAck \cup {nStamp + 1} ELSE tmReqAck
    /\ UNCHANGED <<closing, stackNote, stackResponse, noteSendAck, respFn, respSent, nIn,
                   tmNote, tmResp, hbeat, cbs>>
    /\ UNCHANGED cbClosing

\* the callback of requestTimeoutHandle, lines 413-464
RequestTimeoutFx(s) ==
    <<Cb("req.cbFailure", s, TimeoutCode(reqObj[s])),
      Log("1", "no response within timeout", s)>>

\* the entry the request timeout callback deletes from stackRequest, line 462
RequestTimeoutRemovesNothing(s) == {}
RequestTimeoutRemoved(s) == {s}

RequestTimeout(s) ==
    /\ s \in tmReq
    /\ tmReq' = tmReq \ {s}
    /\ tmReqAck' = IF TimeoutClearsAckTimer(reqObj[s]) THEN tmReqAck \ {s} ELSE tmReqAck
    /\ cbReq' = [cbReq EXCEPT ![s] =
            Append(@, <<"cbFailure", TimeoutCode(reqObj[s]), "requestTimeout">>)]
    /\ stackRequest' = stackRequest \ RequestTimeoutRemoved(s)
    /\ UNCHANGED <<closing, stackNote, stackResponse, objs, tmNote, tmResp, hbeat,
                   cbNote, cbResp>>
    /\ UNCHANGED cbClosing

\* the callback of a request's ackTimeoutHandle, lines 476-488
RequestAckTimeoutFx(s) ==
    <<Cb("req.cbAck", s, "1"), Log("1", "no requestAck within timeout", s)>>

\* the entries the ack timeout callback deletes from stackRequest: none
AckTimeoutRemovesEntry(s) == {s}
AckTimeoutRemoved(s) == {}

RequestAckTimeout(s) ==
    /\ s \in tmReqAck
    /\ tmReqAck' = tmReqAck \ {s}
    /\ cbReq' = [cbReq EXCEPT ![s] = Append(@, <<"cbAck", "1", "ackTimeout">>)]
    /\ reqObj' = [reqObj EXCEPT ![s].ackTimeoutHandle = FALSE, ![s].ackTimedOut = TRUE]
    /\ stackRequest' = stackRequest \ AckTimeoutRemoved(s)
    /\ UNCHANGED <<closing, stackNote, stackResponse, noteSendAck, respFn, respSent, nStamp,
                   nIn, tmNote, tmReq, tmResp, hbeat, cbNote, cbResp>>
    /\ UNCHANGED cbClosing

\* ------------------------------------------------------------- _onMessage
\* sendError logs at level 3 and sends an error envelope, lines 306-313
SendErrorFx == <<Log("3", "error sent", 0), Send("error", 0, "")>>
\* logger(0, msg) followed by sendError(msg), and the other way round
LogThenError(tag, id) == <<Log("0", tag, id)>> \o SendErrorFx
ErrorThenLog(tag, id) == SendErrorFx \o <<Log("0", tag, id)>>
\* every handler starts with logger(4, ...), line 520
Received == <<Log("4", "message received", 0)>>
\* a message that has a type is shown to the test hook before it is
\* dispatched, line 542; the hook of the constructor's default returns nothing.
\* (A hook that returns true ends the handler there: the state stays as it is.)
Dispatched == Received \o <<Cb("cbTest", 0, "")>>

\* a stamp that names a property every plain object inherits ("toString",
\* "constructor", ...); the three stacks are plain objects, lines 112-114
ProtoStamp == -1
\* what the handlers' lookups find for it: message.stamp in this.stackNote
\* (line 570) is true, this.stackRequest[message.stamp] (lines 727, 766) and
\* this.stackResponse[message.stamp] (line 833) are an inherited function
Inherited(stamp) == stamp = ProtoStamp

\* a raw message JSON.parse rejects (lines 523-531), then the missing type
\* (lines 532-538); one that parses to an object without "type"; one that
\* parses to null, a number or a string, where the in operator throws
OnUndecodableFx(kind) ==
    Received \o
    (CASE kind = "unparsable" ->
              ErrorThenLog("could not be parsed", 0) \o LogThenError("no type", 0)
       [] kind = "no type" -> LogThenError("no type", 0)
       [] kind = "not an object" -> <<Throw("TypeError")>>)

OnUndecodable(kind) == UNCHANGED vars

\* a type that is no key of messagetypes, lines 905-909
OnUnknownTypeFx == Dispatched \o <<Log("1", "not a supported type", 0)>>

OnUnknownType == UNCHANGED vars

\* note, lines 547-562
OnNoteFxAckLast(sendAck) ==
    Dispatched \o <<Cb("incomingNoteFunc", 0, "")>>
               \o (IF sendAck THEN <<Send("noteAck", 0, "")>> ELSE <<>>)
OnNoteFx(sendAck) ==
    Dispatched \o (IF sendAck THEN <<Send("noteAck", 0, "")>> ELSE <<>>)
             \o <<Cb("incomingNoteFunc", 0, "")>>

OnNote(sendAck) == UNCHANGED vars

\* noteAck, lines 563-588; stamp 0 is a missing (or falsy) stamp
OnNoteAckFx(stamp) ==
    Dispatched \o
    (IF stamp = 0 THEN ErrorThenLog("noteAck without stamp", 0)
     ELSE IF Inherited(stamp) THEN <<Throw("TypeError")>>
     ELSE IF stamp \in stackNote THEN <<Cb("note.cbAck", stamp, "0")>>
     ELSE LogThenError("stamp not on stack", stamp))

\* the timers the noteAck handler clears before it deletes the entry, line 579
NoteAckClearsNoTimer(stamp) == {}
NoteAckClearedTimers(stamp) == {stamp}

OnNoteAck(stamp) ==
    /\ IF stamp # 0 /\ stamp \in stackNote
       THEN /\ cbNote' = [cbNote EXCEPT ![stamp] = Append(@, "0")]
            /\ tmNote' = tmNote \ NoteAckClearedTimers(stamp)
            /\ stackNote' = stackNote \ {stamp}
       ELSE UNCHANGED <<stackNote, tmNote, cbNote>>
    /\ UNCHANGED <<closing, stackRequest, stackResponse, objs, tmReq, tmReqAck,
                   tmResp, hbeat, cbReq, cbResp>>
    /\ UNCHANGED cbClosing

\* request, lines 591-706: the application gets the response function
OnRequestFx(stamp, hasData, sendAck) ==
    Dispatched \o
    (IF hasData /\ stamp # 0
     THEN IF closing THEN <<>>
          ELSE (IF sendAck THEN <<Send("requestAck", stamp, "")>> ELSE <<>>)
               \o <<Cb("incomingRequestFunc", stamp, "")>>
     ELSE ErrorThenLog("request not valid", stamp))

\* the request is valid (line 594) and the processor is not closing (line 597)
RequestProcessedWhenClosed(stamp, hasData) == hasData /\ stamp # 0
RequestProcessed(stamp, hasData) == hasData /\ stamp # 0 /\ ~closing

OnRequest(stamp, hasData, sendAck) ==
    /\ IF RequestProcessed(stamp, hasData)
       THEN /\ respFn' = respFn \cup {stamp}
            /\ nIn' = nIn + 1
       ELSE UNCHANGED <<respFn, nIn>>
    /\ UNCHANGED <<closing, stores, timers, noteSendAck, reqObj, respSent, nStamp, hbeat, cbs>>
    /\ UNCHANGED cbClosing

\* responseFunc(response, failureCode, opt, cbAck), lines 630-695, called once
\* by the application for the inbound request with this stamp
ResponseFuncFx(stamp, failureCode, sendAck) ==
    IF closing THEN <<Cb("resp.cbAck", stamp, "3")>>
    ELSE <<Send("response", stamp, failureCode)>>

\* what is left of the entry of an acknowledged response when responseFunc
\* finds the processor closing: it is deleted again, lines 670-673
ClosingResponseKept(stamp) == <<stamp>>
ClosingResponseLeft(stamp) == <<>>

ResponseFunc(stamp, failureCode, sendAck) ==
    /\ stamp \in respFn
    /\ respFn' = respFn \ {stamp}
    /\ respSent' = [respSent EXCEPT ![stamp] =
            (IF sendAck THEN "ack" ELSE "noack") \o (IF closing THEN ".closing" ELSE "")]
    /\ IF closing
       THEN /\ cbResp' = [cbResp EXCEPT ![stamp] = Append(@, "3")]
            /\ stackResponse' = IF sendAck THEN Without(stackResponse, stamp)
                                                  \o ClosingResponseLeft(stamp)
                                ELSE stackResponse
            /\ UNCHANGED tmResp
       ELSE /\ stackResponse' = IF sendAck THEN Without(stackResponse, stamp) \o <<stamp>>
                                ELSE stackResponse
            /\ tmResp' = IF sendAck THEN tmResp \cup {stamp} ELSE tmResp
            /\ UNCHANGED cbResp
    /\ UNCHANGED <<closing, stackNote, stackRequest, noteSendAck, reqObj, nStamp, nIn,
                   tmNote, tmReq, tmReqAck, hbeat, cbNote, cbReq>>
    /\ UNCHANGED cbClosing

\* the callback of a response's ackTimeoutHandle, lines 679-689
ResponseAckTimeoutFx(s) ==
    <<Log("1", "response timed out", s), Cb("resp.cbAck", s, "2")>>

ResponseAckTimeout(s) ==
    /\ s \in tmResp
    /\ tmResp' = tmResp \ {s}
    /\ cbResp' = [cbResp EXCEPT ![s] = Append(@, "2")]
    /\ stackResponse' = Without(stackResponse, s)
    /\ UNCHANGED <<closing, stackNote, stackRequest, objs, tmNote, tmReq, tmReqAck,
                   hbeat, cbNote, cbReq>>
    /\ UNCHANGED cbClosing

\* requestAck, lines 709-755; hasStamp is: 'stamp' in message
OnRequestAckFx(hasStamp, stamp) ==
    Dispatched \o
    (IF ~hasStamp THEN LogThenError("requestAck without stamp", 0)
     ELSE IF Inherited(stamp) THEN <<Throw("TypeError")>>
     ELSE IF stamp \in stackRequest
          THEN IF reqObj[stamp].ackTimedOut
               THEN LogThenError("ack arrived after it timed out", stamp)
               ELSE <<Cb("req.cbAck", stamp, "0")>>
          ELSE LogThenError("stamp not on stack", stamp))

\* the requestAck handler accepts the ack, lines 728-745
AckAcceptedAlsoLate(hasStamp, stamp) ==
    hasStamp /\ stamp \in stackRequest
AckAccepted(hasStamp, stamp) ==
    hasStamp /\ stamp \in stackRequest /\ ~reqObj[stamp].ackTimedOut

OnRequestAck(hasStamp, stamp) ==
    /\ IF AckAccepted(hasStamp, stamp)
       THEN /\ cbReq' = [cbReq EXCEPT ![stamp] = Append(@, <<"cbAck", "0", "requestAck">>)]
            /\ tmReqAck' = tmReqAck \ {stamp}
            /\ reqObj' = [reqObj EXCEPT ![stamp].ackArrived = TRUE]
       ELSE UNCHANGED <<tmReqAck, reqObj, cbReq>>
    /\ UNCHANGED <<closing, stores, noteSendAck, respFn, respSent, nStamp, nIn, tmNote, tmReq,
                   tmResp, hbeat, cbNote, cbResp>>
    /\ UNCHANGED cbClosing

\* if (message.failureCode), line 787
TruthyAnyCode(failureCode) == failureCode # ""
Truthy(failureCode) == failureCode \notin {"", "0"}

\* the timers the response handler clears before it deletes the entry, line 770
ResponseClearsNoTimer(s) == [req |-> {}, ack |-> {}]
ResponseClearedTimers(s) == [req |-> {s}, ack |-> {}]

\* response, lines 759-813
OnResponseFx(stamp, hasData, sendAck, failureCode) ==
    Dispatched \o
    (IF hasData /\ stamp # 0
     THEN IF Inherited(stamp)
          THEN (IF sendAck THEN <<Send("responseAck", stamp, "")>> ELSE <<>>)
               \o <<Throw("TypeError")>>
          ELSE IF stamp \in stackRequest
          THEN (IF sendAck THEN <<Send("responseAck", stamp, "")>> ELSE <<>>)
               \o <<IF Truthy(failureCode) THEN Cb("req.cbFailure", stamp, failureCode)
                                           ELSE Cb("req.cbSuccess", stamp, "")>>
          ELSE LogThenError("stamp not on stack", stamp)
     ELSE ErrorThenLog("response not valid", stamp))

OnResponse(stamp, hasData, sendAck, failureCode) ==
    /\ IF hasData /\ stamp # 0 /\ stamp \in stackRequest
       THEN /\ tmReq' = tmReq \ ResponseClearedTimers(stamp).req
            /\ tmReqAck' = tmReqAck \ ResponseClearedTimers(stamp).ack
            /\ cbReq' = [cbReq EXCEPT ![stamp] = Append(@,
                   IF Truthy(failureCode) THEN <<"cbFailure", failureCode, "response">>
                                          ELSE <<"cbSuccess", "", "response">>)]
            /\ stackRequest' = stackRequest \ {stamp}
       ELSE UNCHANGED <<tmReq, tmReqAck, cbReq, stackRequest>>
    /\ UNCHANGED <<closing, stackNote, stackResponse, objs, tmNote, tmResp, hbeat,
                   cbNote, cbResp>>
    /\ UNCHANGED cbClosing

\* responseAck, lines 816-853
OnResponseAckFx(hasStamp, stamp) ==
    Dispatched \o
    (IF ~hasStamp THEN LogThenError("responseAck without stamp", 0)
     ELSE IF Inherited(stamp) THEN <<Throw("TypeError")>>
     ELSE IF stamp \in Range(stackResponse) THEN <<Cb("resp.cbAck", stamp, "0")>>
     ELSE LogThenError("stamp not on stack", stamp))

\* the timers the responseAck handler clears before it deletes the entry, line 837
ResponseAckClearsNoTimer(stamp) == {}
ResponseAckClearedTimers(stamp) == {stamp}

OnResponseAck(hasStamp, stamp) ==
    /\ IF hasStamp /\ stamp \in Range(stackResponse)
       THEN /\ tmResp' = tmResp \ ResponseAckClearedTimers(stamp)
            /\ cbResp' = [cbResp EXCEPT ![stamp] = Append(@, "0")]
            /\ stackResponse' = Without(stackResponse, stamp)
       ELSE UNCHANGED <<tmResp, stackResponse, cbResp>>
    /\ UNCHANGED <<closing, stackNote, stackRequest, objs, tmNote, tmReq, tmReqAck,
                   hbeat, cbNote, cbReq>>
    /\ UNCHANGED cbClosing

\* error, lines 855-857: message.data.toString() throws when data is missing
OnErrorFx(hasData) ==
    Dispatched \o
    (IF hasData THEN <<Log("1", "peer returned an error", 0)>> ELSE <<Throw("TypeError")>>)

OnError(hasData) == UNCHANGED vars

\* ping, lines 859-868
OnPingFx(data) == Dispatched \o <<Send("pong", data, ""), Log("4", "pong sent", data)>>

OnPing(data) == UNCHANGED vars

\* let meanRtt = (lastRTT + currentRTT)/2, line 279: what sendHeartbeat takes
\* the failure timeout and the interval to the next ping from (round trip
\* times are held in milliseconds here, in seconds by the code)
MeanRTT == (lastRTT + currentRTT) \div 2

\* this.heartbeat.lastRTT = this.heartbeat.currentRTT, line 888
ShiftedRTTStale == lastRTT
ShiftedRTT == currentRTT

\* the failure timers the pong handler cancels: clearTimeout(HB.timeout), line 885
PongClearsNoTimer(data) == {}
PongClearedTimers(data) == {data}

\* pong, lines 870-902; rtt is the time measured since the ping was sent
OnPongFx(data, rtt) ==
    Dispatched \o
    (IF data \notin hbSent
     THEN <<Log("1", "pong did not match a ping", data)>>
     ELSE (IF nLastArrived + 1 # data THEN <<Log("1", "pong out of order", data)>> ELSE <<>>)
          \o <<Log("4", "pong arrived", data)>>)

OnPong(data, rtt) ==
    /\ IF data \in hbSent
       THEN /\ tmHB' = tmHB \ PongClearedTimers(data)
            /\ lastRTT' = ShiftedRTT
            /\ currentRTT' = rtt
            /\ nLastArrived' = data
            /\ hbSent' = hbSent \ {data}
            /\ UNCHANGED <<nSent, timeoutNext, orphanNext>>
       ELSE UNCHANGED hbeat
    /\ UNCHANGED <<closing, stores, timers, objs, cbs>>
    /\ UNCHANGED cbClosing

\* --------------------------------------------------------- specifications
\* how far a behaviour is explored
MayPing == nSent < MaxPing
MayStamp == nStamp < MaxStamp
MayAck(s) == s \in Stamps => Len(SelectSeq(cbReq[s], LAMBDA c: c[1] = "cbAck")) < MaxAck0
NotesSent == Cardinality({s \in Stamps : noteSendAck[s] # "none"})
RequestsSent == Cardinality({s \in Stamps : reqObj[s].used})

\* the connection: open(), close() and the heartbeat failure
NextConn ==
    \/ MayPing /\ Open
    \/ \E cw \in BOOLEAN : Close(cw)
    \/ \E n \in Pings : HeartbeatTimeout(n)

\* what happens to the requests sent by this side
NextReqIn ==
    \/ \E s \in Stamps : RequestTimeout(s)
    \/ \E s \in Stamps : RequestAckTimeout(s)
    \/ \E s \in Stamps \cup {UnknownStamp, ProtoStamp} : MayAck(s) /\ OnRequestAck(TRUE, s)
    \/ OnRequestAck(FALSE, 0)
    \/ \E s \in (0..UnknownStamp) \cup {ProtoStamp}, d \in BOOLEAN, a \in BOOLEAN, c \in PeerCodes :
            OnResponse(s, d, a, c)

\* what happens to the notes sent by this side
NextNoteIn ==
    \/ \E s \in Stamps : NoteAckTimeout(s)
    \/ \E s \in (0..UnknownStamp) \cup {ProtoStamp} : OnNoteAck(s)

\* requests of the peer, and the responses to them
NextRequestIn ==
    \E s \in {0, nIn + 1}, d \in BOOLEAN, a \in BOOLEAN : OnRequest(s, d, a)

NextResp ==
    \/ \E s \in InStamps, c \in PeerCodes \ {""}, a \in BOOLEAN : ResponseFunc(s, c, a)
    \/ \E s \in InStamps : ResponseAckTimeout(s)
    \/ \E s \in InStamps \cup {UnknownInStamp, ProtoStamp} : OnResponseAck(TRUE, s)
    \/ OnResponseAck(FALSE, 0)

\* the request machine: requests only
NextReq ==
    \/ NextConn
    \/ MayStamp /\ \E a \in BOOLEAN, t \in AckTimeouts : SendRequest(a, t)
    \/ NextReqIn
SpecReq == Init /\ [][NextReq]_vars

\* the note machine: notes only
NextNote ==
    \/ NextConn
    \/ MayStamp /\ \E a \in BOOLEAN : SendNote(a)
    \/ NextNoteIn
SpecNote == Init /\ [][NextNote]_vars

\* the responder: inbound requests and their responses only
NextResponder ==
    \/ NextConn
    \/ nIn < MaxInReq /\ NextRequestIn
    \/ NextResp
SpecResp == Init /\ [][NextResponder]_vars

\* the whole engine
Next ==
    \/ NextConn
    \/ MayStamp /\ RequestsSent < MaxReq
         /\ \E a \in BOOLEAN, t \in AckTimeouts : SendRequest(a, t)
    \/ MayStamp /\ NotesSent < MaxNote /\ \E a \in BOOLEAN : SendNote(a)
    \/ NextReqIn
    \/ NextNoteIn
    \/ nIn < MaxIn /\ NextRequestIn
    \/ NextResp
Spec == Init /\ [][Next]_vars

\* ------------------------------------------------------------- properties
Last(seq) == seq[Len(seq)]
Front(seq) == SubSeq(seq, 1, Len(seq) - 1)
\* the calls of cbSuccess and cbFailure of a request, and those made by one path
Terminals(s) == SelectSeq(cbReq[s], LAMBDA c: c[1] \in {"cbSuccess", "cbFailure"})
CallsVia(s, path) == SelectSeq(cbReq[s], LAMBDA c: c[3] = path)
Occurrences(seq, x) == Len(SelectSeq(seq, LAMBDA c: c = x))

\* C1: a request that was sent has had no terminal callback while it is on the
\* stack and exactly one call of cbSuccess or cbFailure (one of them, once) from
\* the moment it is not, whatever the order of requestAck, response, repeated
\* response, ack timeout, request timeout and close() that led to the state.
ExactlyOneTerminalOutcome ==
    \A s \in Stamps :
        IF reqObj[s].used
        THEN Len(Terminals(s)) = (IF s \in stackRequest THEN 0 ELSE 1)
        ELSE cbReq[s] = <<>>

\* two requests resolved, one by its response after its requestAck, the other
\* by its request timeout after its ack timeout
OutcomesAfterRaces ==
    \E s \in Stamps, u \in Stamps :
        /\ s # u
        /\ reqObj[s].used /\ reqObj[u].used
        /\ s \notin stackRequest /\ u \notin stackRequest
        /\ reqObj[s].ackArrived
        /\ Terminals(s) = << <<"cbSuccess", "", "response">> >>
        /\ Terminals(u) = << <<"cbFailure", "2.3", "requestTimeout">> >>

NoTimerWithoutEntry ==
    /\ tmNote \subseteq stackNote
    /\ tmReq \subseteq stackRequest
    /\ tmReqAck \subseteq stackRequest
    /\ tmResp \subseteq Range(stackResponse)

\* C5: once cbSuccess or cbFailure of a request has been called, no step calls
\* any callback of that request.
NoCallbackAfterOutcome ==
    [][\A s \in Stamps : Len(Terminals(s)) > 0 => cbReq'[s] = cbReq[s]]_vars

\* C6: a request is on the stack exactly when its request timeout is live, and
\* then it has been sent and has had no terminal callback; sendRequest puts it
\* there with the timer armed; it leaves the stack only in a step that delivers
\* the response, fires the request timeout or closes an open processor, and
\* that step leaves the timer dead; it never comes back.
RequestPendingState ==
    \A s \in Stamps :
        /\ s \in stackRequest <=> s \in tmReq
        /\ s \in stackRequest => reqObj[s].used /\ Terminals(s) = <<>>
RequestPendingStep ==
    \A s \in Stamps :
        /\ (~reqObj[s].used /\ reqObj'[s].used) =>
              s \in stackRequest' /\ s \in tmReq'
        /\ (s \in stackRequest /\ s \notin stackRequest') =>
              /\ s \notin tmReq'
              /\ Len(cbReq'[s]) = Len(cbReq[s]) + 1
              /\ Last(cbReq'[s])[1] \in {"cbSuccess", "cbFailure"}
              /\ Last(cbReq'[s])[3] \in {"response", "requestTimeout", "close"}
              /\ Last(cbReq'[s])[3] = "close" => ~closing /\ closing'
        /\ (reqObj[s].used /\ s \notin stackRequest) =>
              s \notin stackRequest' /\ s \notin tmReq'
RequestTimeoutLiveWhilePending ==
    [](RequestPendingState) /\ [][RequestPendingStep]_vars

\* a request resolved by close(), and one sent after that close() which is
\* pending with its request timeout live
PendingBesideResolved ==
    \E s \in Stamps, u \in Stamps :
        /\ closing
        /\ CallsVia(u, "close") # <<>> /\ u \notin stackRequest /\ u \notin tmReq
        /\ s \in stackRequest /\ s \in tmReq

\* C7: a step that closes an open processor empties the three stores, calls
\* the cbAck of every note and of every response that was stacked once with 1,
\* calls the cbFailure of every request that was stacked once with a code of
\* the 1 family, none of these entries having been resolved before, calls
\* no other callback, and leaves no timer of these entries live.
IsCloseStep == ~closing /\ closing'
CloseResolves ==
    /\ stackNote' = {} /\ stackRequest' = {} /\ stackResponse' = <<>>
    /\ \A s \in Stamps :
        /\ s \in stackNote => cbNote[s] = <<>> /\ cbNote'[s] = <<"1">> /\ s \notin tmNote'
        /\ s \notin stackNote => cbNote'[s] = cbNote[s]
        /\ s \in stackRequest =>
              /\ Terminals(s) = <<>>
              /\ Front(cbReq'[s]) = cbReq[s]
              /\ Last(cbReq'[s])[1] = "cbFailure"
              /\ Last(cbReq'[s])[2] \in {"1", "1.1", "1.2", "1.3"}
              /\ s \notin tmReq' /\ s \notin tmReqAck'
        /\ s \notin stackRequest => cbReq'[s] = cbReq[s]
    /\ \A s \in InStamps :
        /\ s \in Range(stackResponse) =>
              cbResp[s] = <<>> /\ cbResp'[s] = <<"1">> /\ s \notin tmResp'
        /\ s \notin Range(stackResponse) => cbResp'[s] = cbResp[s]
CloseIsIdempotent ==
    /\ closing =>
          /\ \A cw \in BOOLEAN : CloseFx(cw) = <<>> /\ ClosingFuncCalls(cw) = 0
          /\ CloseAfter(hbSent, tmHB) =
                [closing |-> closing, timeoutNext |-> timeoutNext, tmHB |-> tmHB,
                 hbSent |-> hbSent, stackNote |-> stackNote, tmNote |-> tmNote,
                 cbNote |-> cbNote, stackRequest |-> stackRequest, tmReq |-> tmReq,
                 tmReqAck |-> tmReqAck, cbReq |-> cbReq, stackResponse |-> stackResponse,
                 tmResp |-> tmResp, cbResp |-> cbResp]
    /\ \A s \in Stamps : Occurrences(cbNote[s], "1") <= 1 /\ Len(CallsVia(s, "close")) <= 1
    /\ \A s \in InStamps : Occurrences(cbResp[s], "1") <= 1

\* closed by a close() that resolved a request, with a note registered since,
\* so that a second close() finds a non-empty store
ClosedWithEntryLeft ==
    /\ closing
    /\ \E s \in Stamps : CallsVia(s, "close") # <<>>
    /\ stackNote # {} /\ tmNote # {}

\* C9: a processor that was open and has been closed stays closed in every step.
NeverReopens == [][(closing /\ nSent > 0) => closing']_vars

\* C10: the code a firing request timeout hands to cbFailure is 2 without
\* sendAck, 2.1 when the ack has arrived, 2.3 when the ack timeout was armed and
\* has fired, 2.2 otherwise; and every code logged for this path is the one of
\* the request's ack state, which does not change once the request is resolved
\* by its timeout.
ExpectedTimeoutCode(o, ackTimerFired) ==
    CASE ~o.sendAck -> "2"
      [] o.sendAck /\ o.ackArrived -> "2.1"
      [] o.sendAck /\ ~o.ackArrived /\ o.ackTimeout > 0 /\ ackTimerFired -> "2.3"
      [] OTHER -> "2.2"
AckTimerFired(s) == CallsVia(s, "ackTimeout") # <<>>
RequestTimeoutCodes ==
    \A s \in Stamps :
        /\ s \in tmReq =>
              RequestTimeoutFx(s)[1] =
                  Cb("req.cbFailure", s, ExpectedTimeoutCode(reqObj[s], AckTimerFired(s)))
        /\ \A i \in 1..Len(CallsVia(s, "requestTimeout")) :
              /\ CallsVia(s, "requestTimeout")[i][1] = "cbFailure"
              /\ CallsVia(s, "requestTimeout")[i][2] =
                    ExpectedTimeoutCode(reqObj[s], AckTimerFired(s))
              /\ CallsVia(s, "requestTimeout")[i][2] \in {"2", "2.1", "2.2", "2.3"}

\* two requests timed out, one with its ack timer armed and not fired (2.2), one
\* after its ack timer fired (2.3)
TimedOutBeforeAndAfterAckTimeout ==
    \E s \in Stamps, u \in Stamps :
        /\ reqObj[s].ackTimeout > 0
        /\ cbReq[s] = << <<"cbFailure", "2.2", "requestTimeout">> >>
        /\ s \notin tmReqAck
        /\ cbReq[u] = << <<"cbAck", "1", "ackTimeout">>, <<"cbFailure", "2.3", "requestTimeout">> >>

\* C11: the code close() hands to the cbFailure of a pending request is 1
\* without sendAck, 1.1 when the ack has arrived, 1.3 when the ack timeout was
\* armed and has fired, 1.2 otherwise; close() calls cbFailure once for each
\* pending request, and every code logged for this path is that one.
ExpectedCloseCode(o, ackTimerFired) ==
    CASE ~o.sendAck -> "1"
      [] o.sendAck /\ o.ackArrived -> "1.1"
      [] o.sendAck /\ ~o.ackArrived /\ o.ackTimeout > 0 /\ ackTimerFired -> "1.3"
      [] OTHER -> "1.2"
CloseCodes ==
    \A s \in Stamps :
        /\ (s \in stackRequest /\ ~closing) =>
              \A cw \in BOOLEAN :
                 SelectSeq(CloseFx(cw), LAMBDA e: e[1] = "cb" /\ e[3] = s) =
                    << Cb("req.cbFailure", s,
                          ExpectedCloseCode(reqObj[s], AckTimerFired(s))) >>
        /\ \A i \in 1..Len(CallsVia(s, "close")) :
              /\ CallsVia(s, "close")[i][1] = "cbFailure"
              /\ CallsVia(s, "close")[i][2] =
                    ExpectedCloseCode(reqObj[s], AckTimerFired(s))
              /\ CallsVia(s, "close")[i][2] \in {"1", "1.1", "1.2", "1.3"}

\* close() has resolved a request whose ack had arrived (1.1) and one whose ack
\* timeout had fired (1.3)
ClosedAfterAckAndAfterAckTimeout ==
    \E s \in Stamps, u \in Stamps :
        /\ cbReq[s] = << <<"cbAck", "0", "requestAck">>, <<"cbFailure", "1.1", "close">> >>
        /\ cbReq[u] = << <<"cbAck", "1", "ackTimeout">>, <<"cbFailure", "1.3", "close">> >>

\* C12: the step in which the ack timer of a request fires calls cbAck(1) and
\* nothing else, sets ackTimedOut, and leaves stackRequest and the request
\* timers as they are; a request that is pending after its ack timer fired
\* still has its request timeout live, and a matching response calls its
\* cbSuccess or cbFailure.
IsAckTimeoutStep(s) == cbReq'[s] = Append(cbReq[s], <<"cbAck", "1", "ackTimeout">>)
AckTimeoutStep ==
    \A s \in Stamps :
        IsAckTimeoutStep(s) =>
            /\ reqObj[s].sendAck /\ reqObj[s].ackTimeout > 0
            /\ RequestAckTimeoutFx(s)[1] = Cb("req.cbAck", s, "1")
            /\ \A i \in 1..Len(RequestAckTimeoutFx(s)) :
                    RequestAckTimeoutFx(s)[i][1] = "cb" => i = 1
            /\ reqObj'[s].ackTimedOut
            /\ stackRequest' = stackRequest
            /\ tmReq' = tmReq
AfterAckTimeout ==
    \A s \in Stamps :
        (AckTimerFired(s) /\ s \in stackRequest) =>
            /\ reqObj[s].ackTimedOut
            /\ s \in tmReq
            /\ Terminals(s) = <<>>
            /\ \A a \in BOOLEAN, c \in PeerCodes :
                  Last(OnResponseFx(s, TRUE, a, c)) =
                      IF Truthy(c) THEN Cb("req.cbFailure", s, c)
                                   ELSE Cb("req.cbSuccess", s, "")
AckTimeoutKeepsRequestPending == [](AfterAckTimeout) /\ [][AckTimeoutStep]_vars

\* a request resolved by its response after its ack timer fired, and one still
\* pending after its ack timer fired
ResolvedAfterAckTimeout ==
    \E s \in Stamps, u \in Stamps :
        /\ cbReq[s] = << <<"cbAck", "1", "ackTimeout">>, <<"cbSuccess", "", "response">> >>
        /\ cbReq[u] = << <<"cbAck", "1", "ackTimeout">> >>
        /\ u \in stackRequest

\* C13: for a pending request whose ack timer has fired, a requestAck is
\* logged at level 0, answered with an error and not accepted; no step calls
\* cbAck for such a request again, its ackArrived stays false, it stays on the
\* stack and its request timeout stays live until the request is resolved.
LateAckInState ==
    \A s \in Stamps :
        (s \in stackRequest /\ AckTimerFired(s)) =>
            /\ OnRequestAckFx(TRUE, s) =
                  Dispatched \o LogThenError("ack arrived after it timed out", s)
            /\ ~reqObj[s].ackArrived
            /\ CallsVia(s, "requestAck") = <<>>
            /\ Len(CallsVia(s, "ackTimeout")) = 1
            /\ s \in tmReq
LateAckInStep ==
    \A s \in Stamps :
        (s \in stackRequest /\ AckTimerFired(s)) =>
            /\ ~reqObj'[s].ackArrived
            /\ cbReq'[s] # cbReq[s] =>
                  /\ Front(cbReq'[s]) = cbReq[s]
                  /\ Last(cbReq'[s])[1] \in {"cbSuccess", "cbFailure"}
                  /\ s \notin stackRequest'
            /\ cbReq'[s] = cbReq[s] => s \in stackRequest' /\ s \in tmReq'
LateAckIgnored == [](LateAckInState) /\ [][LateAckInStep]_vars

\* a pending request whose ack timer has fired, in an open processor: a
\* requestAck for it is late, and the handler leaves this state as it is
PendingAfterAckTimeout ==
    \E s \in Stamps :
        /\ ~closing
        /\ s \in stackRequest /\ s \in tmReq
        /\ reqObj[s].ackTimedOut
        /\ cbReq[s] = << <<"cbAck", "1", "ackTimeout">> >>
        /\ ~reqObj[s].ackArrived

\* C14: the cbAck of a request has been called at most once, and a requestAck
\* for a pending request whose ack has arrived calls no callback: it is
\* reported as an error and dropped.
AckCalls(s) == SelectSeq(cbReq[s], LAMBDA c: c[1] = "cbAck")
AckCallbackAtMostOnce ==
    \A s \in Stamps :
        /\ Len(AckCalls(s)) <= 1
        /\ (s \in stackRequest /\ reqObj[s].ackArrived) =>
              OnRequestAckFx(TRUE, s) = Dispatched \o LogThenError("duplicate requestAck", s)

\* C15: close() calls no cbAck of a request: the only callback it makes for a
\* pending request is cbFailure; a step that closes an open processor leaves no
\* ack timer of a request it resolved live, and nothing is called for a
\* request after close() resolved it.
CloseCallsNoAck ==
    /\ \A cw \in BOOLEAN :
          \A i \in 1..Len(CloseFx(cw)) : CloseFx(cw)[i][2] # "req.cbAck"
    /\ \A s \in Stamps :
          CallsVia(s, "close") # <<>> =>
              /\ Last(cbReq[s]) = CallsVia(s, "close")[1]
              /\ Last(cbReq[s])[1] = "cbFailure"
              /\ s \notin tmReqAck
CloseStepCallsNoAck ==
    IsCloseStep =>
        \A s \in Stamps :
            s \in stackRequest =>
                /\ AckCalls(s)' = AckCalls(s)
                /\ Len(cbReq'[s]) = Len(cbReq[s]) + 1
                /\ s \notin tmReqAck'
CloseNeverAcks == [](CloseCallsNoAck) /\ [][CloseStepCallsNoAck]_vars

\* close() resolved a request whose ack timer was armed and had not fired: the
\* only call is cbFailure(1.2), and the timer is dead
ClosedWithAckOutstanding ==
    \E s \in Stamps :
        /\ reqObj[s].sendAck /\ reqObj[s].ackTimeout > 0
        /\ reqObj[s].ackTimeoutHandle
        /\ cbReq[s] = << <<"cbFailure", "1.2", "close">> >>
        /\ s \notin tmReqAck

\* C16: a note sent with sendAck=false is never on the stack, never has an ack
\* timer and its cbAck is never called; a noteAck with its stamp is answered
\* with an error and calls nothing, and no step changes any of this.
NoteWithoutAckState ==
    \A s \in Stamps :
        noteSendAck[s] = "false" =>
            /\ s \notin stackNote
            /\ s \notin tmNote
            /\ cbNote[s] = <<>>
            /\ OnNoteAckFx(s) = Dispatched \o LogThenError("stamp not on stack", s)
            /\ \A cw \in BOOLEAN :
                  \A i \in 1..Len(CloseFx(cw)) : CloseFx(cw)[i][3] # s
NoteWithoutAckStep ==
    \A s \in Stamps :
        /\ noteSendAck[s] = "false" => noteSendAck'[s] = "false"
        /\ (noteSendAck[s] = "none" /\ noteSendAck'[s] = "false") =>
              s \notin stackNote' /\ s \notin tmNote' /\ SendNoteFx(FALSE)[2][4] = "false"
NoteWithoutAckNeverAcked == [](NoteWithoutAckState) /\ [][NoteWithoutAckStep]_vars

\* a note sent with sendAck=false, and a note sent after it with sendAck=true
\* which close() has resolved
NoteWithoutAckAfterClose ==
    \E s \in Stamps, u \in Stamps :
        /\ s < u
        /\ noteSendAck[s] = "false"
        /\ noteSendAck[u] = "true" /\ cbNote[u] = <<"1">>
        /\ closing

\* the heartbeat: pings, pongs and their timers, beside one note and one request
MayPingHB == nSent < MaxPingHB
NextHB ==
    \/ MayPingHB /\ Open
    \/ \E cw \in BOOLEAN : Close(cw)
    \/ \E n \in Pings : HeartbeatTimeout(n)
    \/ MayPingHB /\ \E h \in BOOLEAN : NextPingFires(h)
    \/ \E d \in 0..MaxPingHB, r \in RttSamples : OnPong(d, r)
    \/ MayStamp /\ NotesSent < MaxNote /\ SendNote(TRUE)
    \/ MayStamp /\ RequestsSent < MaxReq /\ \E t \in AckTimeouts : SendRequest(TRUE, t)
SpecHB == Init /\ [][NextHB]_vars

\* ----------------------------------------------------------------- liveness
\* a timer that stays live fires: setTimeout callbacks run unless cleared
TimersFire ==
    /\ \A s \in Stamps : WF_vars(NoteAckTimeout(s))
    /\ \A s \in Stamps : WF_vars(RequestTimeout(s))
    /\ \A s \in InStamps : WF_vars(ResponseAckTimeout(s))
SpecLive == Init /\ [][Next]_vars /\ TimersFire

\* C17: when timers that stay live fire, every note, request and response that
\* is put on its stack is eventually off it with exactly one call of its
\* terminal callback (cbAck of the note or response, cbSuccess or cbFailure of
\* the request), whether or not the peer sends anything.
EveryPendingResolved ==
    /\ \A s \in Stamps :
          s \in stackNote ~> (s \notin stackNote /\ Len(cbNote[s]) = 1)
    /\ \A s \in Stamps :
          s \in stackRequest ~> (s \notin stackRequest /\ Len(Terminals(s)) = 1)
    /\ \A s \in InStamps :
          s \in Range(stackResponse) ~>
              (s \notin Range(stackResponse) /\ Len(cbResp[s]) = 1)

\* a note, a request and a response, each resolved by its own timer
AllResolvedByTimers ==
    /\ \E s \in Stamps : cbNote[s] = <<"2">>
    /\ \E s \in Stamps : cbReq[s] = << <<"cbFailure", "2", "requestTimeout">> >>
    /\ \E s \in InStamps : cbResp[s] = <<"2">>
    /\ stackNote = {} /\ stackRequest = {} /\ stackResponse = <<>>

\* C18: whenever the failure timer of a ping is live, its firing calls
\* closingFunc exactly once and leaves the processor closing, the three stores
\* empty with every entry resolved by the close path, and no failure timer of
\* another ping live, so that closingFunc is not called a second time.
HeartbeatFailureCloses ==
    \A n \in Pings :
        n \in tmHB =>
            /\ Occurrences(HeartbeatTimeoutFx(n), ClosingFunc) = 1
            /\ ClosingFuncCalls(TRUE) = 1
            /\ CloseAfter(hbSent \ {n}, tmHB \ {n}).closing
            /\ CloseAfter(hbSent \ {n}, tmHB \ {n}).tmHB = {}
            /\ CloseAfter(hbSent \ {n}, tmHB \ {n}).stackNote = {}
            /\ CloseAfter(hbSent \ {n}, tmHB \ {n}).stackRequest = {}
            /\ CloseAfter(hbSent \ {n}, tmHB \ {n}).stackResponse = <<>>
            /\ \A s \in stackNote :
                  Occurrences(HeartbeatTimeoutFx(n), Cb("note.cbAck", s, "1")) = 1
            /\ \A s \in stackRequest :
                  Occurrences(HeartbeatTimeoutFx(n),
                              Cb("req.cbFailure", s, CloseCode(reqObj[s]))) = 1

\* the dead connection: the pong of the last ping the bound allows never
\* arrives, the owner does not close, and timers that stay live fire
NextDead ==
    \/ MayPingHB /\ Open
    \/ \E n \in Pings : HeartbeatTimeout(n)
    \/ MayPingHB /\ \E h \in BOOLEAN : NextPingFires(h)
    \/ \E d \in 1..(MaxPingHB - 1), r \in RttSamples : OnPong(d, r)
    \/ MayStamp /\ NotesSent < MaxNote /\ SendNote(TRUE)
    \/ MayStamp /\ RequestsSent < MaxReq /\ \E t \in AckTimeouts : SendRequest(TRUE, t)
HeartbeatTimersFire ==
    /\ \A n \in Pings : WF_vars(HeartbeatTimeout(n))
    /\ \A h \in BOOLEAN : WF_vars(MayPingHB /\ NextPingFires(h))
SpecDead == Init /\ [][NextDead]_vars /\ HeartbeatTimersFire

\* C19: an open processor whose pongs stop arriving is eventually closing,
\* with one more call of closingFunc than before.
DeadConnectionDetected ==
    \A k \in 0..MaxPingHB :
        (~closing /\ cbClosing = k) ~> (closing /\ cbClosing = k + 1)

\* closed by the heartbeat after a pong had been accepted and a later ping
\* stayed unanswered
ClosedAfterPongsStopped ==
    /\ closing /\ cbClosing = 1
    /\ nLastArrived >= 1 /\ nSent > nLastArrived
    /\ tmHB = {} /\ hbSent = {}

\* C20: sendHeartbeat sends the number after the last one sent; open() sends a
\* ping in the same step, ping 1 on a processor that has sent none; the counter
\* moves by one per ping, so the numbers sent are 1, 2, 3, ... with none sent
\* twice; and while the processor is open a next-ping timer is live, whose
\* callback sends the following number.
PingNumbersInState ==
    /\ SendHeartbeatFx[1] = Send("ping", nSent + 1, "")
    /\ OpenFx = SendHeartbeatFx /\ NextPingFiresFx = SendHeartbeatFx
    /\ hbSent \subseteq 1..nSent
    /\ ~closing => nSent >= 1 /\ timeoutNext
PingNumbersInStep ==
    /\ nSent' \in {nSent, nSent + 1}
    /\ hbSent' \ hbSent \subseteq {nSent + 1}
    /\ nSent' = nSent + 1 => (nSent + 1) \in hbSent' /\ timeoutNext'
    /\ (closing /\ ~closing') => nSent' = nSent + 1
PingsNumberedInOrder == [](PingNumbersInState) /\ [][PingNumbersInStep]_vars

\* three pings in flight on an open processor, none left-over timer: ping 1
\* sent by open(), pings 2 and 3 by the next-ping timer
ThreePingsInFlight ==
    /\ ~closing /\ cbClosing = 0
    /\ nSent = 3 /\ hbSent = {1, 2, 3}
    /\ timeoutNext /\ orphanNext = 0

\* ------------------------------------------------ heartbeat timers, close

\* C21: in every reachable state at most one "send next ping" timer of the
\* processor is live: the one heartbeat.timeoutNext names, and none besides it.
NextPingTimers == (IF timeoutNext THEN 1 ELSE 0) + orphanNext
AtMostOneNextPingTimer == NextPingTimers <= 1

\* C22: a step that closes an open processor leaves the next-ping timer of the
\* handle and the failure timer of every in-flight ping cancelled and the map
\* of in-flight pings empty; while the processor stays closed no heartbeat
\* timer is live and no ping is sent.
HeartbeatTimersLive == NextPingTimers + Cardinality(tmHB)
CloseCancelsHandleTimers ==
    [][IsCloseStep => (~timeoutNext' /\ tmHB' = {} /\ hbSent' = {})]_vars
CloseStopsHeartbeat ==
    /\ CloseCancelsHandleTimers
    /\ [](closing => HeartbeatTimersLive = 0)
    /\ [][(closing /\ closing') => nSent' = nSent]_vars

\* C23: the mean round trip time sendHeartbeat computes is the seed while no
\* pong has been accepted; accepting a pong moves the window of two samples on
\* by one (the newer sample becomes the older, the measured one the newer), so
\* that the mean after it is the mean of the two most recent samples, where the
\* seed stands for a sample not yet measured; no other step changes the window.
PongAccepted == nLastArrived' # nLastArrived
OutOfOrderEntries(data) ==
    Len(SelectSeq(OnPongFx(data, 40), LAMBDA e : e = Log("1", "pong out of order", data)))
PongDisorderLoggedOnce ==
    \A n \in Pings :
        /\ (n \in hbSent /\ nLastArrived = n - 1) => OutOfOrderEntries(n) = 0
        /\ ({n, n + 1} \subseteq hbSent /\ nLastArrived = n - 1) =>
                OutOfOrderEntries(n + 1) = 1
        /\ (n \in hbSent /\ nLastArrived = n + 1) => OutOfOrderEntries(n) = 0
\* the part of it about in-order pongs and about the first pong of a disorder
PongOrderLogged ==
    \A n \in Pings :
        /\ (n \in hbSent /\ nLastArrived = n - 1) => OutOfOrderEntries(n) = 0
        /\ ({n, n + 1} \subseteq hbSent /\ nLastArrived = n - 1) =>
                OutOfOrderEntries(n + 1) = 1

\* ------------------------------------------------- responses while closing

\* C25: the response function called while the processor is closing calls the
\* ack callback with code 3 and hands nothing to the transport; the step arms
\* no ack timer and leaves no entry for the stamp in the response store.
RespondedWhileClosing(s) == closing /\ s \in respFn /\ s \notin respFn'
ResponseWhileClosing ==
    /\ [](closing =>
            \A s \in InStamps, c \in PeerCodes, a \in BOOLEAN :
                ResponseFuncFx(s, c, a) = <<Cb("resp.cbAck", s, "3")>>)
    /\ [][\A s \in InStamps :
            RespondedWhileClosing(s) =>
                /\ cbResp'[s] = Append(cbResp[s], "3")
                /\ tmResp' = tmResp /\ s \notin tmResp'
                /\ s \notin Range(stackResponse')]_vars
\* an acknowledged response and one without ack, both given while closing
RespondedAfterClose ==
    \E s, u \in InStamps :
        /\ respSent[s] = "ack.closing" /\ respSent[u] = "noack.closing"
        /\ cbResp[s] = <<"3">> /\ cbResp[u] = <<"3">>
        /\ {s, u} \cap (Range(stackResponse) \cup tmResp) = {}

\* ------------------------------------------------------ inbound messages

\* every class of inbound raw message: the envelopes of the engine, and the
\* messages that reach no handler of a pending entry
NextOtherIn ==
    \/ \E kind \in {"unparsable", "no type", "not an object"} : OnUndecodable(kind)
    \/ OnUnknownType
    \/ \E a \in BOOLEAN : OnNote(a)
    \/ \E d \in BOOLEAN : OnError(d)
    \/ \E n \in Pings : OnPing(n)
    \/ \E n \in 0..MaxPing : OnPong(n, 40)
\* the engine of a processor that is opened once, with every inbound message
NextMsg ==
    \/ \E cw \in BOOLEAN : Close(cw)
    \/ MayStamp /\ RequestsSent < MaxReq
         /\ \E a \in BOOLEAN, t \in AckTimeouts : SendRequest(a, t)
    \/ MayStamp /\ NotesSent < MaxNote /\ \E a \in BOOLEAN : SendNote(a)
    \/ NextReqIn
    \/ NextNoteIn
    \/ nIn < MaxIn /\ NextRequestIn
    \/ NextResp
    \/ NextOtherIn
SpecMsg == Init /\ [][NextMsg]_vars

\* the callbacks and handlers of the application an inbound message can reach
\* (the test hook cbTest is not one of them)
AppCallbacks == {"incomingNoteFunc", "incomingRequestFunc", "note.cbAck", "req.cbAck",
                 "req.cbSuccess", "req.cbFailure", "resp.cbAck"}
Effects(fx, kind) == SelectSeq(fx, LAMBDA e : e[1] = kind)
Throws(fx) == Effects(fx, "throw") # <<>>
CallsApplication(fx) == \E i \in 1..Len(fx) : fx[i][1] = "cb" /\ fx[i][2] \in AppCallbacks
\* an error envelope and nothing else is sent, and an error is logged
ErrorReported(fx) ==
    /\ Effects(fx, "send") # <<>>
    /\ \A i \in 1..Len(fx) : fx[i][1] = "send" => fx[i][2] = "error"
    /\ \E i \in 1..Len(fx) : fx[i][1] = "log" /\ fx[i][4] = "0"
ReportedAndDropped(fx) == ErrorReported(fx) /\ ~CallsApplication(fx) /\ ~Throws(fx)

\* the effects of the four handlers for the stamps of the set that are in no
\* entry of the handler's store
AbsentStampsReported(out, in) ==
    /\ \A s \in out \ stackNote : ReportedAndDropped(OnNoteAckFx(s))
    /\ \A s \in out \ stackRequest :
          /\ ReportedAndDropped(OnRequestAckFx(TRUE, s))
          /\ \A a \in BOOLEAN, c \in PeerCodes :
                  ReportedAndDropped(OnResponseFx(s, TRUE, a, c))
    /\ \A s \in in \ Range(stackResponse) : ReportedAndDropped(OnResponseAckFx(TRUE, s))
\* what such a message changes
AbsentStampsChangeNothing(out, in) ==
    /\ \A s \in out \ stackNote : OnNoteAck(s) => UNCHANGED <<stores, timers, cbs>>
    /\ \A s \in out \ stackRequest :
          /\ OnRequestAck(TRUE, s) => UNCHANGED <<stores, timers, cbs>>
          /\ \A a \in BOOLEAN, c \in PeerCodes :
                  OnResponse(s, TRUE, a, c) => UNCHANGED <<stores, timers, cbs>>
    /\ \A s \in in \ Range(stackResponse) :
          OnResponseAck(TRUE, s) => UNCHANGED <<stores, timers, cbs>>

\* C26: a noteAck, requestAck, response or responseAck whose stamp is in no
\* entry of the corresponding store is dropped: an error envelope is sent, an
\* error is logged, no callback of the application is called, and the stores,
\* the timers and the callbacks made so far stay as they are.
UnknownStampDropped ==
    /\ [](AbsentStampsReported(Stamps \cup {UnknownStamp, ProtoStamp},
                               InStamps \cup {UnknownInStamp, ProtoStamp}))
    /\ [][AbsentStampsChangeNothing(Stamps \cup {UnknownStamp, ProtoStamp},
                                   InStamps \cup {UnknownInStamp, ProtoStamp})]_vars
\* the same for the stamps that name no inherited property
UnknownOwnStampDropped ==
    /\ [](AbsentStampsReported(Stamps \cup {UnknownStamp}, InStamps \cup {UnknownInStamp}))
    /\ [][AbsentStampsChangeNothing(Stamps \cup {UnknownStamp},
                                   InStamps \cup {UnknownInStamp})]_vars

\* the effects of the handlers for a raw message of one of the kinds, for an
\* ack without stamp, and for a request or response without stamp or data
MalformedReported(kinds) ==
    /\ \A kind \in kinds : ReportedAndDropped(OnUndecodableFx(kind))
    /\ ReportedAndDropped(OnNoteAckFx(0))
    /\ ReportedAndDropped(OnRequestAckFx(FALSE, 0))
    /\ ReportedAndDropped(OnResponseAckFx(FALSE, 0))
    /\ \A s \in {0, nIn + 1}, d \in BOOLEAN, a \in BOOLEAN :
            ~(d /\ s # 0) => ReportedAndDropped(OnRequestFx(s, d, a))
    /\ \A s \in (0..UnknownStamp) \cup {ProtoStamp}, d \in BOOLEAN, a \in BOOLEAN,
          c \in PeerCodes :
            ~(d /\ s # 0) => ReportedAndDropped(OnResponseFx(s, d, a, c))
\* what such a message changes
MalformedChangesNothing(kinds) ==
    /\ \A kind \in kinds : OnUndecodable(kind) => UNCHANGED vars
    /\ OnNoteAck(0) => UNCHANGED vars
    /\ OnRequestAck(FALSE, 0) => UNCHANGED vars
    /\ OnResponseAck(FALSE, 0) => UNCHANGED vars
    /\ \A s \in {0, nIn + 1}, d \in BOOLEAN, a \in BOOLEAN :
            (~(d /\ s # 0) /\ OnRequest(s, d, a)) => UNCHANGED vars
    /\ \A s \in (0..UnknownStamp) \cup {ProtoStamp}, d \in BOOLEAN, a \in BOOLEAN,
          c \in PeerCodes :
            (~(d /\ s # 0) /\ OnResponse(s, d, a, c)) => UNCHANGED vars

\* C27: an inbound message that cannot be decoded or lacks a required field
\* (the type; the stamp of an ack; the stamp or the data of a request or a
\* response) changes no state, reaches no handler or callback of the
\* application, and is reported to the peer with an error envelope and logged
\* as an error.
MalformedDropped ==
    /\ [](MalformedReported({"unparsable", "no type", "not an object"}))
    /\ [][MalformedChangesNothing({"unparsable", "no type", "not an object"})]_vars
\* the same without the texts that decode to null, a number or a string
MalformedObjectDropped ==
    /\ [](MalformedReported({"unparsable", "no type"}))
    /\ [][MalformedChangesNothing({"unparsable", "no type"})]_vars

\* C28: processing an inbound raw message of any class (text that cannot be
\* parsed, text that decodes to null, a number or a string, an object without
\* type, an error envelope with or without data, an envelope of each known
\* type and of an unknown type) raises no failure: its effects are log
\* entries, sends and callbacks only.
NeverThrows ==
    /\ \A kind \in {"unparsable", "no type", "not an object"} : ~Throws(OnUndecodableFx(kind))
    /\ ~Throws(OnUnknownTypeFx)
    /\ \A d \in BOOLEAN : ~Throws(OnErrorFx(d))
    /\ \A a \in BOOLEAN : ~Throws(OnNoteFx(a))
    /\ \A n \in Pings : ~Throws(OnPingFx(n)) /\ ~Throws(OnPongFx(n, 40))
    /\ \A s \in (0..UnknownStamp) \cup {ProtoStamp} :
          /\ ~Throws(OnNoteAckFx(s))
          /\ \A h \in BOOLEAN : ~Throws(OnRequestAckFx(h, s))
          /\ \A d \in BOOLEAN, a \in BOOLEAN, c \in PeerCodes :
                ~Throws(OnResponseFx(s, d, a, c))
    /\ \A s \in (0..UnknownInStamp) \cup {ProtoStamp} :
          /\ \A h \in BOOLEAN : ~Throws(OnResponseAckFx(h, s))
          /\ \A d \in BOOLEAN, a \in BOOLEAN : ~Throws(OnRequestFx(s, d, a))

\* ------------------------------------------------------------------ sends

\* C29: in every state of the processor sendNote hands exactly one envelope,
\* a note, to the transport, and sendRequest exactly one, a request; the step
\* that sends a request leaves its entry in the request store with a live
\* request timeout, whether the processor is open or closing.
RequestSent == nStamp' = nStamp + 1 /\ reqObj'[nStamp + 1].used
SendsAlwaysTransmit ==
    /\ [](\A a \in BOOLEAN :
            /\ Effects(SendNoteFx(a), "send") = <<Send("note", nStamp + 1, BoolStr(a))>>
            /\ \A t \in AckTimeouts :
                  Effects(SendRequestFx(a, t), "send") =
                      <<Send("request", nStamp + 1, BoolStr(a))>>)
    /\ [][RequestSent =>
            (nStamp + 1 \in stackRequest' /\ nStamp + 1 \in tmReq')]_vars
\* a request and a note sent on a processor that was opened and has been
\* closed: close() leaves no entry, so these were registered after it
SentWhileClosed ==
    /\ closing /\ nSent > 0
    /\ stackRequest \cap tmReq # {}
    /\ stackNote \cap tmNote # {}

\* C30: a response with data whose stamp is that of a pending request calls
\* the success callback if its failureCode is 0 or absent and otherwise the
\* failure callback with the peer's failureCode, sends a responseAck if and
\* only if it carries sendAck, and the step removes the entry from the
\* request store.
ResponseArrived(s) ==
    /\ s \in stackRequest
    /\ Len(cbReq'[s]) = Len(cbReq[s]) + 1
    /\ cbReq'[s][Len(cbReq'[s])][3] = "response"
ResponseResolvesRequest ==
    /\ [](\A s \in stackRequest, a \in BOOLEAN, c \in PeerCodes :
            OnResponseFx(s, TRUE, a, c) =
                Dispatched
                \o (IF a THEN <<Send("responseAck", s, "")>> ELSE <<>>)
                \o <<IF c \in {"", "0"} THEN Cb("req.cbSuccess", s, "")
                                        ELSE Cb("req.cbFailure", s, c)>>)
    /\ [][\A s \in Stamps :
            ResponseArrived(s) =>
                /\ s \notin stackRequest'
                /\ cbReq'[s][Len(cbReq'[s])] \in
                      {<<"cbSuccess", "", "response">>, <<"cbFailure", "13", "response">>}]_vars
\* one request resolved by a response without failure, one by a failed one
ResolvedBySuccessAndFailure ==
    \E s, u \in Stamps \ stackRequest :
        /\ cbReq[s] # <<>> /\ cbReq[s][Len(cbReq[s])] = <<"cbSuccess", "", "response">>
        /\ cbReq[u] # <<>> /\ cbReq[u][Len(cbReq[u])] = <<"cbFailure", "13", "response">>

\* ------------------------------------------------ acknowledgements first

\* effect a occurs once in fx, effect b occurs once, and a comes before b
Precedes(fx, a, b) ==
    /\ Len(SelectSeq(fx, LAMBDA e : e = a)) = 1
    /\ Len(SelectSeq(fx, LAMBDA e : e = b)) = 1
    /\ \E i, j \in 1..Len(fx) : i < j /\ fx[i] = a /\ fx[j] = b

\* C31: on an open processor an inbound note or request that asks for an ack
\* has its noteAck or requestAck handed to the transport before the note or
\* request handler of the application is called, and a response that asks for
\* an ack has its responseAck sent before cbSuccess or cbFailure is called.
AckBeforeProcessing ==
    ~closing =>
        /\ Precedes(OnNoteFx(TRUE), Send("noteAck", 0, ""), Cb("incomingNoteFunc", 0, ""))
        /\ Precedes(OnRequestFx(nIn + 1, TRUE, TRUE), Send("requestAck", nIn + 1, ""),
                    Cb("incomingRequestFunc", nIn + 1, ""))
        /\ \A s \in stackRequest :
              /\ Precedes(OnResponseFx(s, TRUE, TRUE, "13"), Send("responseAck", s, ""),
                          Cb("req.cbFailure", s, "13"))
              /\ \A c \in {"", "0"} :
                    Precedes(OnResponseFx(s, TRUE, TRUE, c), Send("responseAck", s, ""),
                             Cb("req.cbSuccess", s, ""))
\* an open processor with a request pending and an inbound request handled
OpenWithRequestBothWays ==
    /\ ~closing
    /\ stackRequest # {} /\ respFn # {}
    /\ Precedes(OnNoteFx(TRUE), Send("noteAck", 0, ""), Cb("incomingNoteFunc", 0, ""))

\* ---------------------------------------------------- pongs and failures

\* C32: for a ping n, accepting its pong and the firing of its failure timer
\* exclude each other: either needs the record and the live timer of n, either
\* leaves n without record and without timer, and a number that has lost its
\* record never gets one again. A pong whose number has no record changes no
\* round trip time, not nLastArrived, and no timer, and is only logged.
PongOrFailure(n) == (nLastArrived' = n /\ nLastArrived # n) \/ HeartbeatTimeout(n)
PongExcludesFailure ==
    /\ [][\A n \in Pings :
            /\ PongOrFailure(n) =>
                  (n \in hbSent /\ n \in tmHB /\ n \notin hbSent' /\ n \notin tmHB')
            /\ (n <= nSent /\ n \notin hbSent) => (n \notin hbSent' /\ n \notin tmHB')]_vars
    /\ [](\A n \in (0..MaxPingHB) \ hbSent, r \in RttSamples :
            OnPongFx(n, r) = Dispatched \o <<Log("1", "pong did not match a ping", n)>>)
    /\ [][\A n \in (0..MaxPingHB) \ hbSent, r \in RttSamples :
            OnPong(n, r) => UNCHANGED <<lastRTT, currentRTT, nLastArrived, timers, tmHB,
                                        timeoutNext, orphanNext>>]_vars
\* pong 1 was accepted; ping 2 stayed unanswered and has lost its record and
\* its timer; the processor is closed
AnsweredAndUnanswered ==
    /\ nLastArrived = 1 /\ nSent = 2
    /\ hbSent = {} /\ tmHB = {}
    /\ closing /\ cbClosing = 1

\* ------------------------------------------------- ack state of requests

\* C33: ackArrived and ackTimedOut of a request are never both true, and its
\* ack callback never gets both code 0 and code 1; once the ack has arrived,
\* or has timed out, the ack state stays as it is.
AckCodes(s) == {AckCalls(s)[i][2] : i \in 1..Len(AckCalls(s))}
AckStateMovesOnce ==
    /\ [](\A s \in Stamps :
            /\ ~(reqObj[s].ackArrived /\ reqObj[s].ackTimedOut)
            /\ ~({"0", "1"} \subseteq AckCodes(s)))
    /\ [][\A s \in Stamps :
            /\ reqObj[s].ackArrived =>
                  (reqObj'[s].ackArrived /\ ~reqObj'[s].ackTimedOut)
            /\ reqObj[s].ackTimedOut =>
                  (reqObj'[s].ackTimedOut /\ ~reqObj'[s].ackArrived)]_vars
\* one request acked, the other with its ack timed out
OneAckedOneAckTimedOut ==
    \E s, u \in Stamps :
        /\ reqObj[s].ackArrived /\ AckCodes(s) = {"0"}
        /\ reqObj[u].ackTimedOut /\ AckCodes(u) = {"1"}

\* C34: the ack callback of a request sent with sendAck = false is never
\* called, and its ack state never changes, whatever the peer sends.
NoAckWithoutSendAck ==
    \A s \in Stamps :
        (reqObj[s].used /\ ~reqObj[s].sendAck) =>
            /\ AckCalls(s) = <<>>
            /\ ~reqObj[s].ackArrived /\ ~reqObj[s].ackTimedOut
\* the part of it that does not depend on the peer: no ack timer is armed
NoAckTimerWithoutSendAck ==
    \A s \in Stamps :
        (reqObj[s].used /\ ~reqObj[s].sendAck) =>
            (s \notin tmReqAck /\ ~reqObj[s].ackTimedOut /\ "1" \notin AckCodes(s))

\* ------------------------------------------------------- closed processor

\* C35: in every reachable state in which the processor is closing, the three
\* stores are empty and no ack timer and no request timeout is live.
ClosedMeansEmpty ==
    closing =>
        /\ stackNote = {} /\ stackRequest = {} /\ stackResponse = <<>>
        /\ tmNote \cup tmReq \cup tmReqAck \cup tmResp = {}

\* C36: while the processor is closing a well-formed inbound request is
\* dropped silently: no requestAck is sent, no handler of the application is
\* called, no response function is created and no variable changes; an inbound
\* note is still acknowledged, if it asks for that, and given to the note
\* handler.
RequestDroppedWhileClosing ==
    /\ [](closing =>
            \A a \in BOOLEAN :
                /\ OnRequestFx(nIn + 1, TRUE, a) = Dispatched
                /\ OnNoteFx(a) = Dispatched
                                 \o (IF a THEN <<Send("noteAck", 0, "")>> ELSE <<>>)
                                 \o <<Cb("incomingNoteFunc", 0, "")>>)
    /\ [][closing =>
            \A a \in BOOLEAN : OnRequest(nIn + 1, TRUE, a) => UNCHANGED vars]_vars
\* a processor that took an inbound request while open and has been closed
ClosedAfterInboundRequest ==
    /\ closing /\ nIn = 1 /\ respFn # {}
    /\ OnRequestFx(nIn + 1, TRUE, TRUE) = Dispatched

\* ----------------------------------------------- close() entered again

\* what close() leaves in this.stackNote, this.stackRequest and
\* this.stackResponse after its loops, lines 196, 240, 248
CloseKeepsStores(r) ==
    [note |-> r.stackNote, req |-> r.stackRequest, resp |-> r.stackResponse]
CloseLeftStores(r) == [note |-> {}, req |-> {}, resp |-> <<>>]

\* the statements of close() from line 179 on (this.closing = true, the
\* heartbeat timers, the three loops), run on the part r of the state
CloseBody(r) ==
    [closing |-> TRUE,
     timeoutNext |-> FALSE,
     tmHB |-> r.tmHB \ r.hbSent,
     hbSent |-> {},
     stackNote |-> CloseLeftStores(r).note,
     tmNote |-> r.tmNote \ r.stackNote,
     cbNote |-> [s \in Stamps |->
           IF s \in r.stackNote THEN Append(r.cbNote[s], "1") ELSE r.cbNote[s]],
     stackRequest |-> CloseLeftStores(r).req,
     tmReq |-> r.tmReq \ r.stackRequest,
     tmReqAck |-> r.tmReqAck \ {s \in r.stackRequest : reqObj[s].ackTimeoutHandle},
     cbReq |-> [s \in Stamps |->
           IF s \in r.stackRequest
           THEN Append(r.cbReq[s], <<"cbFailure", CloseCode(reqObj[s]), "close">>)
           ELSE r.cbReq[s]],
     stackResponse |-> CloseLeftStores(r).resp,
     tmResp |-> r.tmResp \ Range(r.stackResponse),
     cbResp |-> [s \in InStamps |->
           IF s \in Range(r.stackResponse) THEN Append(r.cbResp[s], "1") ELSE r.cbResp[s]]]

\* the variables close() writes take the values of r
StateBecomes(r) ==
    /\ closing' = r.closing
    /\ timeoutNext' = r.timeoutNext
    /\ tmHB' = r.tmHB
    /\ hbSent' = r.hbSent
    /\ stackNote' = r.stackNote
    /\ tmNote' = r.tmNote
    /\ cbNote' = r.cbNote
    /\ stackRequest' = r.stackRequest
    /\ tmReq' = r.tmReq
    /\ tmReqAck' = r.tmReqAck
    /\ cbReq' = r.cbReq
    /\ stackResponse' = r.stackResponse
    /\ tmResp' = r.tmResp
    /\ cbResp' = r.cbResp

\* close(true) on an open processor whose closingFunc (line 176, called before
\* this.closing is set at line 179) makes the transport report the closure at
\* once: the owner's handler calls close() there, which runs in full, and then
\* the outer call goes on from line 179
CloseReentered ==
    /\ ~closing
    /\ cbClosing' = cbClosing + 1
    /\ StateBecomes(CloseBody(CloseBody(CloseBefore(hbSent, tmHB))))
    /\ UNCHANGED <<objs, nSent, nLastArrived, lastRTT, currentRTT, orphanNext>>

\* a callback that close() calls in one of its loops registers a new operation
\* with stamp new. The loop runs over the store with for-in, which may or may
\* not visit a key added while it runs: when it does (visited), the new entry
\* is resolved by the same loop; when it does not, the entry is dropped by the
\* assignment of {} after the loop (lines 196, 240) and its timers stay armed.
RetryLeft(r, new, o, visited) ==
    IF visited
    THEN [r EXCEPT !.cbReq = [@ EXCEPT ![new] =
                        Append(@, <<"cbFailure", CloseCode(o), "close">>)]]
    ELSE [r EXCEPT !.tmReq = @ \cup RequestTimerArmed(new),
                   !.tmReqAck = @ \cup (IF AckTimerArmed(o.sendAck, o.ackTimeout)
                                        THEN {new} ELSE {})]
ResendLeft(r, new, visited) ==
    IF visited
    THEN [r EXCEPT !.cbNote = [@ EXCEPT ![new] = Append(@, "1")]]
    ELSE [r EXCEPT !.tmNote = @ \cup {new}]

\* close(closeWsConnection) on an open processor with a pending request whose
\* cbFailure, called at lines 211-237, calls sendRequest again
CloseRetrying(closeWsConnection, visited, sendAck, ackTimeout) ==
    /\ ~closing /\ stackRequest # {}
    /\ cbClosing' = cbClosing + (IF closeWsConnection THEN 1 ELSE 0)
    /\ nStamp' = nStamp + 1
    /\ reqObj' = [reqObj EXCEPT ![nStamp + 1] =
            [used |-> TRUE, sendAck |-> sendAck, ackTimeout |-> ackTimeout,
             ackArrived |-> FALSE, ackTimedOut |-> FALSE,
             ackTimeoutHandle |-> AckTimerArmed(sendAck, ackTimeout)]]
    /\ StateBecomes(RetryLeft(CloseBody(CloseBefore(hbSent, tmHB)), nStamp + 1,
                              reqObj'[nStamp + 1], visited))
    /\ UNCHANGED <<noteSendAck, respFn, respSent, nIn, nSent, nLastArrived, lastRTT,
                   currentRTT, orphanNext>>

\* close(closeWsConnection) on an open processor with a pending note whose
\* cbAck, called at line 194, calls sendNote with sendAck again
CloseResending(closeWsConnection, visited) ==
    /\ ~closing /\ stackNote # {}
    /\ cbClosing' = cbClosing + (IF closeWsConnection THEN 1 ELSE 0)
    /\ nStamp' = nStamp + 1
    /\ noteSendAck' = [noteSendAck EXCEPT ![nStamp + 1] = BoolStr(TRUE)]
    /\ StateBecomes(ResendLeft(CloseBody(CloseBefore(hbSent, tmHB)), nStamp + 1, visited))
    /\ UNCHANGED <<reqObj, respFn, respSent, nIn, nSent, nLastArrived, lastRTT,
                   currentRTT, orphanNext>>

\* the whole engine, with close() entered again from inside itself
NextReenter ==
    \/ Next
    \/ CloseReentered
    \/ MayStamp /\ \E cw \in BOOLEAN, v \in BOOLEAN, a \in BOOLEAN, t \in AckTimeouts :
            CloseRetrying(cw, v, a, t)
    \/ MayStamp /\ \E cw \in BOOLEAN, v \in BOOLEAN : CloseResending(cw, v)
SpecReenter == Init /\ [][NextReenter]_vars

\* C37: when closingFunc, called by close(true), makes the owner call close()
\* again before it returns, every pending note, request and response gets its
\* callback from close() exactly once and closingFunc is called exactly once;
\* and no step that closes the processor calls a pending entry's callback more
\* than once.
ReenteredCloseCallsOnce ==
    /\ [][CloseReentered =>
            /\ cbClosing' = cbClosing + 1
            /\ \A s \in Stamps :
                  /\ Len(cbNote'[s]) = Len(cbNote[s]) + (IF s \in stackNote THEN 1 ELSE 0)
                  /\ Len(cbReq'[s]) = Len(cbReq[s]) + (IF s \in stackRequest THEN 1 ELSE 0)
            /\ \A s \in InStamps :
                  Len(cbResp'[s]) =
                      Len(cbResp[s]) + (IF s \in Range(stackResponse) THEN 1 ELSE 0)]_vars
    /\ [][IsCloseStep =>
            /\ cbClosing' <= cbClosing + 1
            /\ \A s \in stackNote : Len(cbNote'[s]) = Len(cbNote[s]) + 1
            /\ \A s \in stackRequest : Len(cbReq'[s]) = Len(cbReq[s]) + 1
            /\ \A s \in Range(stackResponse) : Len(cbResp'[s]) = Len(cbResp[s]) + 1]_vars
\* closed with closingFunc called once and a note, a request and a response
\* each resolved by one callback of close()
ClosedOnceWithAllThree ==
    /\ closing /\ cbClosing = 1
    /\ \E s \in Stamps : cbNote[s] = <<"1">> /\ s \notin tmNote
    /\ \E s \in Stamps : Len(cbReq[s]) = 1 /\ cbReq[s][1][3] = "close" /\ s \notin tmReq
    /\ \E s \in InStamps : cbResp[s] = <<"1">> /\ s \notin tmResp

\* C38: an operation registered from inside a callback that close() calls is
\* not lost: after the step its timers are live only while its entry is in the
\* store, and it has had at most one outcome.
RegisteredInsideClose == IsCloseStep /\ nStamp' = nStamp + 1
ReentrantOperationKept ==
    [][RegisteredInsideClose =>
            /\ nStamp' \in tmReq' \cup tmReqAck' => nStamp' \in stackRequest'
            /\ nStamp' \in tmNote' => nStamp' \in stackNote'
            /\ Len(cbReq'[nStamp']) + Len(cbNote'[nStamp']) <= 1]_vars

\* ---------------------------------------------------- one error envelope

\* C39: handling one inbound raw message sends at most one error envelope to
\* the peer, and a message that cannot be parsed is reported exactly once.
ErrorEnvelopes(fx) == Len(SelectSeq(fx, LAMBDA e : e = Send("error", 0, "")))
AtMostOneErrorEnvelope ==
    /\ ErrorEnvelopes(OnUndecodableFx("unparsable")) = 1
    /\ \A kind \in {"no type", "not an object"} : ErrorEnvelopes(OnUndecodableFx(kind)) <= 1
    /\ ErrorEnvelopes(OnUnknownTypeFx) <= 1
    /\ \A d \in BOOLEAN : ErrorEnvelopes(OnErrorFx(d)) <= 1
    /\ \A s \in (0..UnknownStamp) \cup {ProtoStamp} :
          /\ ErrorEnvelopes(OnNoteAckFx(s)) <= 1
          /\ \A h \in BOOLEAN : ErrorEnvelopes(OnRequestAckFx(h, s)) <= 1
          /\ \A d \in BOOLEAN, a \in BOOLEAN, c \in PeerCodes :
                ErrorEnvelopes(OnResponseFx(s, d, a, c)) <= 1
    /\ \A s \in (0..UnknownInStamp) \cup {ProtoStamp} :
          /\ \A h \in BOOLEAN : ErrorEnvelopes(OnResponseAckFx(h, s)) <= 1
          /\ \A d \in BOOLEAN, a \in BOOLEAN : ErrorEnvelopes(OnRequestFx(s, d, a)) <= 1
\* the same for every message that JSON.parse accepts
AtMostOneErrorWhenParsed ==
    /\ \A kind \in {"no type", "not an object"} : ErrorEnvelopes(OnUndecodableFx(kind)) <= 1
    /\ ErrorEnvelopes(OnUnknownTypeFx) <= 1
    /\ \A d \in BOOLEAN : ErrorEnvelopes(OnErrorFx(d)) <= 1
    /\ \A s \in (0..UnknownStamp) \cup {ProtoStamp} :
          /\ ErrorEnvelopes(OnNoteAckFx(s)) <= 1
          /\ \A h \in BOOLEAN : ErrorEnvelopes(OnRequestAckFx(h, s)) <= 1
          /\ \A d \in BOOLEAN, a \in BOOLEAN, c \in PeerCodes :
                ErrorEnvelopes(OnResponseFx(s, d, a, c)) <= 1
    /\ \A s \in (0..UnknownInStamp) \cup {ProtoStamp} :
          /\ \A h \in BOOLEAN : ErrorEnvelopes(OnResponseAckFx(h, s)) <= 1
          /\ \A d \in BOOLEAN, a \in BOOLEAN : ErrorEnvelopes(OnRequestFx(s, d, a)) <= 1

\* --------------------------------------------- ping records and timers

\* C40: the records of in-flight pings and the live failure timers correspond
\* one to one, every recorded ping number lies between 1 and nSent, and
\* nLastArrived never exceeds nSent.
PingRecordsMatchTimers ==
    /\ tmHB = hbSent
    /\ hbSent \subseteq 1..nSent
    /\ nLastArrived <= nSent
\* three pings sent, the first answered, the other two in flight with timers
TwoInFlightAfterOnePong ==
    /\ nSent = 3 /\ nLastArrived = 1
    /\ hbSent = {2, 3} /\ tmHB = {2, 3}
====
